---- MODULE Spec2Model ----
(***************************************************************************)
(* Model of the BOTAN beacon decoder (src/src/botan_parser.rs and the      *)
(* entry point decode_botan_beacon of src/src/main.rs) and of the pattern  *)
(* table BotanDecoder (src/src/main.rs).                                   *)
(*                                                                         *)
(* A Rust &str is modelled as the sequence of its UTF-8 bytes.  An ASCII   *)
(* byte is written as the one-character string of its character; the two   *)
(* bytes of the non-ASCII character U+00E9 are written "<C3>" and "<A9>",  *)
(* and so every other byte that has no TLA+ string escape ("<0B>" is the   *)
(* vertical tab, "<E3>", "<80>", "<80>" the character U+3000).             *)
(* Byte offsets of the source (0-based, half-open ranges) are kept in the  *)
(* operators that slice; SubSeq is 1-based and closed.                     *)
(*                                                                         *)
(* f64 values are kept exact as scaled integers (the suffix _eN means the  *)
(* value times 10^N).  The logarithm and the square root are not           *)
(* evaluated: bat_t and bpb_t carry the argument the source passes to      *)
(* ln() and sqrt(), which is what the domain checks read.                  *)
(***************************************************************************)
EXTENDS Integers, Sequences, FiniteSets, TLC

VARIABLES input, pc, parts, data_str, bytes, result, report,
          decode_map, initial_map, calls, dec_input, dec_result

\* The state of one call of the beacon parser.
parserVars == <<input, pc, parts, data_str, bytes, result, report>>

\* The state of a BotanDecoder: its table, and for the properties the table
\* it was constructed with, the add_mapping calls made since, and the last
\* decode call with its result.
decoderVars == <<decode_map, initial_map, calls, dec_input, dec_result>>

vars == <<parserVars, decoderVars>>

(***************************************************************************)
(* Strings                                                                 *)
(***************************************************************************)

\* char::is_whitespace: the characters with the Unicode property White_Space,
\* each as its UTF-8 bytes: U+0009..U+000D, U+0020, U+0085, U+00A0, U+1680,
\* U+2000..U+200A, U+2028, U+2029, U+202F, U+205F, U+3000.
WhiteSpace ==
    {<<"\t">>, <<"\n">>, <<"<0B>">>, <<"\f">>, <<"\r">>, <<" ">>,
     <<"<C2>", "<85>">>, <<"<C2>", "<A0>">>, <<"<E1>", "<9A>", "<80>">>,
     <<"<E2>", "<80>", "<80>">>, <<"<E2>", "<80>", "<81>">>,
     <<"<E2>", "<80>", "<82>">>, <<"<E2>", "<80>", "<83>">>,
     <<"<E2>", "<80>", "<84>">>, <<"<E2>", "<80>", "<85>">>,
     <<"<E2>", "<80>", "<86>">>, <<"<E2>", "<80>", "<87>">>,
     <<"<E2>", "<80>", "<88>">>, <<"<E2>", "<80>", "<89>">>,
     <<"<E2>", "<80>", "<8A>">>, <<"<E2>", "<80>", "<A8>">>,
     <<"<E2>", "<80>", "<A9>">>, <<"<E2>", "<80>", "<AF>">>,
     <<"<E2>", "<81>", "<9F>">>, <<"<E3>", "<80>", "<80>">>}

\* UTF-8 continuation bytes (10xxxxxx, 0x80..0xBF): a byte offset just before
\* one is not a character boundary.
ContinuationBytes ==
    {"<80>", "<81>", "<82>", "<83>", "<84>", "<85>", "<86>", "<87>",
     "<88>", "<89>", "<8A>", "<8B>", "<8C>", "<8D>", "<8E>", "<8F>",
     "<90>", "<91>", "<92>", "<93>", "<94>", "<95>", "<96>", "<97>",
     "<98>", "<99>", "<9A>", "<9B>", "<9C>", "<9D>", "<9E>", "<9F>",
     "<A0>", "<A1>", "<A2>", "<A3>", "<A4>", "<A5>", "<A6>", "<A7>",
     "<A8>", "<A9>", "<AA>", "<AB>", "<AC>", "<AD>", "<AE>", "<AF>",
     "<B0>", "<B1>", "<B2>", "<B3>", "<B4>", "<B5>", "<B6>", "<B7>",
     "<B8>", "<B9>", "<BA>", "<BB>", "<BC>", "<BD>", "<BE>", "<BF>"}

\* The length in bytes of the whitespace character that s starts with (at a
\* character boundary no character is a prefix of another), or 0.
LeadingWhiteSpace(s) ==
    IF \E w \in WhiteSpace : Len(s) >= Len(w) /\ SubSeq(s, 1, Len(w)) = w
    THEN Len(CHOOSE w \in WhiteSpace :
                 Len(s) >= Len(w) /\ SubSeq(s, 1, Len(w)) = w)
    ELSE 0

\* The same for the whitespace character that s ends with.
TrailingWhiteSpace(s) ==
    IF \E w \in WhiteSpace :
          Len(s) >= Len(w) /\ SubSeq(s, Len(s) - Len(w) + 1, Len(s)) = w
    THEN Len(CHOOSE w \in WhiteSpace :
                 Len(s) >= Len(w) /\ SubSeq(s, Len(s) - Len(w) + 1, Len(s)) = w)
    ELSE 0

HexDigits ==
    {"0", "1", "2", "3", "4", "5", "6", "7", "8", "9",
     "a", "b", "c", "d", "e", "f", "A", "B", "C", "D", "E", "F"}

\* char::to_digit(16) for a hexadecimal digit.
HexVal(c) ==
    CASE c = "0" -> 0 [] c = "1" -> 1 [] c = "2" -> 2 [] c = "3" -> 3
      [] c = "4" -> 4 [] c = "5" -> 5 [] c = "6" -> 6 [] c = "7" -> 7
      [] c = "8" -> 8 [] c = "9" -> 9
      [] c \in {"a", "A"} -> 10 [] c \in {"b", "B"} -> 11
      [] c \in {"c", "C"} -> 12 [] c \in {"d", "D"} -> 13
      [] c \in {"e", "E"} -> 14 [] c \in {"f", "F"} -> 15

RECURSIVE trim_start(_)
trim_start(s) ==
    IF LeadingWhiteSpace(s) > 0
    THEN trim_start(SubSeq(s, LeadingWhiteSpace(s) + 1, Len(s)))
    ELSE s

RECURSIVE trim_end(_)
trim_end(s) ==
    IF TrailingWhiteSpace(s) > 0
    THEN trim_end(SubSeq(s, 1, Len(s) - TrailingWhiteSpace(s)))
    ELSE s

\* str::trim
trim(s) == trim_end(trim_start(s))

\* Length of the leading run of non-whitespace bytes of s.
RECURSIVE TokenLen(_)
TokenLen(s) ==
    IF s = <<>> \/ LeadingWhiteSpace(s) > 0 THEN 0
    ELSE 1 + TokenLen(Tail(s))

\* str::split_whitespace().collect(): the maximal non-whitespace runs, in
\* order; empty pieces are never produced.
RECURSIVE split_whitespace(_)
split_whitespace(s) ==
    IF s = <<>> THEN <<>>
    ELSE IF LeadingWhiteSpace(s) > 0
    THEN split_whitespace(SubSeq(s, LeadingWhiteSpace(s) + 1, Len(s)))
    ELSE LET n == TokenLen(s)
         IN  <<SubSeq(s, 1, n)>> \o split_whitespace(SubSeq(s, n + 1, Len(s)))

\* str::starts_with("SI")
starts_with_SI(s) == Len(s) >= 2 /\ s[1] = "S" /\ s[2] = "I"

\* str::is_char_boundary(i), i a 0-based byte offset.
is_char_boundary(s, i) ==
    \/ i = 0
    \/ i = Len(s)
    \/ (i < Len(s) /\ s[i + 1] \notin ContinuationBytes)

\* Whether &s[a..b] is a valid slice; when it is not the source panics.
SliceOk(s, a, b) ==
    a <= b /\ b <= Len(s) /\ is_char_boundary(s, a) /\ is_char_boundary(s, b)

\* &s[a..b] for a valid slice.
Slice(s, a, b) == SubSeq(s, a + 1, b)

(***************************************************************************)
(* Results                                                                 *)
(***************************************************************************)

None == [kind |-> "None"]
Some(v) == [kind |-> "Some", value |-> v]
Ok(v) == [kind |-> "Ok", value |-> v]
\* Err(String): msg is the fixed text that opens the source's message.
Err(m) == [kind |-> "Err", msg |-> m]
\* The call does not return: a slice off a character boundary aborts it.
Panic == [kind |-> "Panic"]

\* The error kinds of the specification, as the messages of the source.
MalformedFrame == {"Invalid beacon format"}
BadHeader == {"Invalid satellite name", "Invalid call sign"}
BadSignalQuality ==
    {"Invalid RSSI format", "Invalid RSSI hex value", "Invalid SNR hex value"}
BadPayloadLength == {"Invalid data length"}
BadHexDigit == {"Invalid hex data"}
InvalidByteCount == {"Expected 8 bytes", "Expected 8 bytes for telemetry"}
OutOfDomain ==
    {"Invalid battery temperature calculation",
     "Invalid board temperature calculation"}

IsErr(r, kinds) == r.kind = "Err" /\ r.msg \in kinds

(***************************************************************************)
(* u8 arithmetic                                                           *)
(***************************************************************************)

RECURSIVE BitAnd(_, _)
BitAnd(a, b) ==
    IF a = 0 \/ b = 0 THEN 0
    ELSE (a % 2) * (b % 2) + 2 * BitAnd(a \div 2, b \div 2)

RECURSIVE Pow2(_)
Pow2(n) == IF n = 0 THEN 1 ELSE 2 * Pow2(n - 1)

Shr(a, n) == a \div Pow2(n)

RECURSIVE HexFold(_, _)
HexFold(digits, acc) ==
    IF digits = <<>> THEN acc
    ELSE HexFold(Tail(digits), acc * 16 + HexVal(digits[1]))


\* u8::from_str_radix(src, 16): an optional leading "+" (never "-" for an
\* unsigned type), then one or more hexadecimal digits, the value at most 255.
from_str_radix(src) ==
    IF src = <<>> THEN Err("Empty")
    ELSE IF Len(src) = 1 /\ src[1] \in {"+", "-"} THEN Err("InvalidDigit")
    ELSE LET digits == IF src[1] = "+" THEN Tail(src) ELSE src
         IN  IF \E i \in 1..Len(digits) : digits[i] \notin HexDigits
             THEN Err("InvalidDigit")
             ELSE IF HexFold(digits, 0) > 255 THEN Err("PosOverflow")
             ELSE Ok(HexFold(digits, 0))

(***************************************************************************)
(* parse_botan_beacon, step by step                                        *)
(***************************************************************************)

\* A faulty ValidateHeader that forgets the call sign (sensitivity of C10).
ValidateHeader_NoCallSign(p) ==
    IF p[1] # <<"B", "O", "T", "A", "N">> THEN Err("Invalid satellite name")
    ELSE None

\* The header checks: None when both header tokens match.
ValidateHeader(p) ==
    IF p[1] # <<"B", "O", "T", "A", "N">> THEN Err("Invalid satellite name")
    ELSE IF p[2] # <<"J", "S", "1", "Y", "P", "T">> THEN Err("Invalid call sign")
    ELSE None

\* The body of `if parts.len() == 4 { ... }`: Some(BotanRSSI), an error, or
\* a panic.  Both slices are taken before either is parsed.
ParseRssi(rssi_str) ==
    IF ~starts_with_SI(rssi_str) \/ Len(rssi_str) # 6
    THEN Err("Invalid RSSI format")
    ELSE IF ~SliceOk(rssi_str, 2, 4) \/ ~SliceOk(rssi_str, 4, Len(rssi_str))
    THEN Panic
    ELSE LET rssi_hex == from_str_radix(Slice(rssi_str, 2, 4))
             snr_hex == from_str_radix(Slice(rssi_str, 4, Len(rssi_str)))
         IN  IF rssi_hex.kind # "Ok" THEN Err("Invalid RSSI hex value")
             ELSE IF snr_hex.kind # "Ok" THEN Err("Invalid SNR hex value")
             ELSE Some([rssi_dbm |-> rssi_hex.value, snr_db |-> snr_hex.value])

\* The optional RSSI info: the token count decides whether parts[2] is one.
RssiOf(p) == IF Len(p) = 4 THEN ParseRssi(p[3]) ELSE None

\* let data_str = match rssi { Some(_) => parts[3], None => parts[2] }
DataStrOf(p, rssi) == IF rssi.kind = "Some" THEN p[4] ELSE p[3]

\* The loop `for i in (0..data_str.len()).step_by(2)` from offset i on, with
\* the bytes pushed so far: the first group that cannot be sliced panics, the
\* first that does not parse is the error.
RECURSIVE HexLoop(_, _, _)
HexLoop(s, i, acc) ==
    IF i >= Len(s) THEN Ok(acc)
    ELSE IF ~SliceOk(s, i, i + 2) THEN Panic
    ELSE LET b == from_str_radix(Slice(s, i, i + 2))
         IN  IF b.kind # "Ok" THEN Err("Invalid hex data")
             ELSE HexLoop(s, i + 2, Append(acc, b.value))

\* The length check and the conversion of the hex string to bytes.
HexToBytes(s) ==
    IF Len(s) # 16 THEN Err("Invalid data length") ELSE HexLoop(s, 0, <<>>)

(***************************************************************************)
(* parse_telemetry_bytes                                                   *)
(***************************************************************************)

\* A faulty LeZero that tests `inner < 0.0` (sensitivity of C6).
LeZero_Strict(num, den) ==
    /\ den # 0
    /\ ((num > 0 /\ den < 0) \/ (num < 0 /\ den > 0))

\* `inner <= 0.0` for inner = num / den in IEEE arithmetic: a zero
\* denominator gives an infinity or a NaN, neither of which is <= 0.
LeZero(num, den) ==
    /\ den # 0
    /\ (num = 0 \/ (num > 0 /\ den < 0) \/ (num < 0 /\ den > 0))

\* A faulty BatT with the coefficient 0.1289 (sensitivity of C5).
BatT_WrongScale(byte3) ==
    LET num == byte3 * 12890
        den == 330000 - byte3 * 12890
    IN  IF LeZero(num, den)
        THEN Err("Invalid battery temperature calculation")
        ELSE Ok([ln_num |-> num, ln_den |-> den])

\* Battery temperature: inner = (byte3 * 0.01289) / (3.3 - byte3 * 0.01289),
\* numerator and denominator times 10^5.
BatT(byte3) ==
    LET num == byte3 * 1289
        den == 330000 - byte3 * 1289
    IN  IF LeZero(num, den)
        THEN Err("Invalid battery temperature calculation")
        ELSE Ok([ln_num |-> num, ln_den |-> den])

\* A faulty BpbT with the coefficient 0.6875 (sensitivity of C7).
BpbT_WrongScale(byte4) ==
    LET discriminant == 3644506 - byte4 * 68750
    IN  IF discriminant < 0
        THEN Err("Invalid board temperature calculation")
        ELSE Ok([sqrt_e5 |-> discriminant])

\* Board temperature: discriminant = 36.44506 - byte4 * 0.06875, times 10^5.
BpbT(byte4) ==
    LET discriminant == 3644506 - byte4 * 6875
    IN  IF discriminant < 0
        THEN Err("Invalid board temperature calculation")
        ELSE Ok([sqrt_e5 |-> discriminant])

\* A faulty Data1Flags with the masks of the two Y faces exchanged
\* (sensitivity of C8).
Data1Flags_SwappedY(byte6) ==
    [power_5v0    |-> BitAnd(byte6, 128) # 0,
     power_depant |-> BitAnd(byte6, 64) # 0,
     power_com    |-> BitAnd(byte6, 32) # 0,
     sap_x_pos    |-> BitAnd(byte6, 16) # 0,
     sap_y_pos    |-> BitAnd(byte6, 4) # 0,
     sap_y_neg    |-> BitAnd(byte6, 8) # 0,
     sap_z_pos    |-> BitAnd(byte6, 2) # 0,
     sap_z_neg    |-> BitAnd(byte6, 1) # 0]

Data1Flags(byte6) ==
    [power_5v0    |-> BitAnd(byte6, 128) # 0,
     power_depant |-> BitAnd(byte6, 64) # 0,
     power_com    |-> BitAnd(byte6, 32) # 0,
     sap_x_pos    |-> BitAnd(byte6, 16) # 0,
     sap_y_pos    |-> BitAnd(byte6, 8) # 0,
     sap_y_neg    |-> BitAnd(byte6, 4) # 0,
     sap_z_pos    |-> BitAnd(byte6, 2) # 0,
     sap_z_neg    |-> BitAnd(byte6, 1) # 0]

Data2Flags(byte7) ==
    [reserve_cmd_counter |-> BitAnd(Shr(byte7, 4), 7),
     cmd_uplink_counter  |-> BitAnd(Shr(byte7, 1), 7),
     kill_sw             |-> BitAnd(byte7, 1) # 0]

\* A faulty Data3Flags that shifts kill_counter by 5 (sensitivity of C9).
Data3Flags_Shift5(byte8) ==
    [kill_counter   |-> BitAnd(Shr(byte8, 5), 3),
     mission_pic_on |-> BitAnd(byte8, 32) # 0,
     mis_error_flag |-> BitAnd(byte8, 16) # 0,
     mis_end_flag   |-> BitAnd(byte8, 8) # 0,
     aprs_flag      |-> BitAnd(byte8, 4) # 0,
     current_mis    |-> BitAnd(byte8, 3)]

Data3Flags(byte8) ==
    [kill_counter   |-> BitAnd(Shr(byte8, 6), 3),
     mission_pic_on |-> BitAnd(byte8, 32) # 0,
     mis_error_flag |-> BitAnd(byte8, 16) # 0,
     mis_end_flag   |-> BitAnd(byte8, 8) # 0,
     aprs_flag      |-> BitAnd(byte8, 4) # 0,
     current_mis    |-> BitAnd(byte8, 3)]

\* A faulty parse_telemetry_bytes that reads bat_i from byte 0 and raw_i from
\* byte 3 (sensitivity of C12).
parse_telemetry_bytes_WrongIndex(b) ==
    IF Len(b) # 8 THEN Err("Expected 8 bytes for telemetry")
    ELSE LET bat_t == BatT(b[3])
             bpb_t == BpbT(b[4])
         IN  IF bat_t.kind = "Err" THEN bat_t
             ELSE IF bpb_t.kind = "Err" THEN bpb_t
             ELSE Ok([bat_v_e6 |-> b[1] * 25781,
                      bat_i_e3 |-> b[1] * (-50045) + 6330400,
                      bat_t    |-> bat_t.value,
                      bpb_t    |-> bpb_t.value,
                      raw_i_e2 |-> b[4] * 5184 - 195090,
                      data1    |-> Data1Flags(b[6]),
                      data2    |-> Data2Flags(b[7]),
                      data3    |-> Data3Flags(b[8])])

parse_telemetry_bytes(b) ==
    IF Len(b) # 8 THEN Err("Expected 8 bytes for telemetry")
    ELSE LET bat_t == BatT(b[3])
             bpb_t == BpbT(b[4])
         IN  IF bat_t.kind = "Err" THEN bat_t
             ELSE IF bpb_t.kind = "Err" THEN bpb_t
             ELSE Ok([bat_v_e6 |-> b[1] * 25781,
                      bat_i_e3 |-> b[2] * (-50045) + 6330400,
                      bat_t    |-> bat_t.value,
                      bpb_t    |-> bpb_t.value,
                      raw_i_e2 |-> b[5] * 5184 - 195090,
                      data1    |-> Data1Flags(b[6]),
                      data2    |-> Data2Flags(b[7]),
                      data3    |-> Data3Flags(b[8])])

(***************************************************************************)
(* parse_botan_beacon                                                      *)
(***************************************************************************)

parse_botan_beacon(line) ==
    LET p == split_whitespace(trim(line))
    IN  IF Len(p) < 3 THEN Err("Invalid beacon format")
        ELSE IF ValidateHeader(p).kind = "Err" THEN ValidateHeader(p)
        ELSE LET rssi == RssiOf(p)
             IN  IF rssi.kind \in {"Err", "Panic"} THEN rssi
                 ELSE LET hex == HexToBytes(DataStrOf(p, rssi))
                      IN  IF hex.kind \in {"Err", "Panic"} THEN hex
                          ELSE IF Len(hex.value) # 8 THEN Err("Expected 8 bytes")
                          ELSE LET telemetry == parse_telemetry_bytes(hex.value)
                               IN  IF telemetry.kind = "Err" THEN telemetry
                                   ELSE Ok([satellite_name |-> <<"B", "O", "T", "A", "N">>,
                                            call_sign |-> <<"J", "S", "1", "Y", "P", "T">>,
                                            rssi |-> rssi,
                                            telemetry |-> telemetry.value])

\* The locals of parse_botan_beacon as the call leaves them, for the state:
\* the payload token (<<>> when the call ended before choosing it) and the
\* vector bytes (<<>> when the call ended before creating it, else the
\* bytes pushed before the loop ended, by completion, error or panic).
ReachedData(p) ==
    /\ Len(p) >= 3
    /\ ValidateHeader(p).kind # "Err"
    /\ RssiOf(p).kind \notin {"Err", "Panic"}

DataStrReached(p) == IF ReachedData(p) THEN DataStrOf(p, RssiOf(p)) ELSE <<>>

\* The bytes the hex loop has pushed when it ends, from offset i on.
RECURSIVE PushedBytes(_, _, _)
PushedBytes(s, i, acc) ==
    IF i >= Len(s) THEN acc
    ELSE IF ~SliceOk(s, i, i + 2) THEN acc
    ELSE IF from_str_radix(Slice(s, i, i + 2)).kind # "Ok" THEN acc
    ELSE PushedBytes(s, i + 2,
                     Append(acc, from_str_radix(Slice(s, i, i + 2)).value))

BytesReached(p) ==
    IF ReachedData(p) /\ Len(DataStrOf(p, RssiOf(p))) = 16
    THEN PushedBytes(DataStrOf(p, RssiOf(p)), 0, <<>>)
    ELSE <<>>

(***************************************************************************)
(* Display for BotanBeaconData: the "Mission Status" section               *)
(***************************************************************************)

OnOff(f) == IF f THEN "ON" ELSE "OFF"
YesNo(f) == IF f THEN "YES" ELSE "NO"

CurrentMissionName(current_mis) ==
    CASE current_mis = 0 -> "None"
      [] current_mis = 1 -> "Earth"
      [] current_mis = 2 -> "Sun"
      [] OTHER -> "Unknown"

MissionStatus(data3) ==
    [kill_counter    |-> data3.kill_counter,
     mission_pic     |-> OnOff(data3.mission_pic_on),
     mission_error   |-> YesNo(data3.mis_error_flag),
     mission_end     |-> YesNo(data3.mis_end_flag),
     aprs_mission    |-> IF data3.aprs_flag THEN "ACTIVE" ELSE "INACTIVE",
     current_mission |-> CurrentMissionName(data3.current_mis)]

\* decode_botan_beacon: the rendered record, or the parser's error.
decode_botan_beacon(line) ==
    LET r == parse_botan_beacon(line)
    IN  IF r.kind = "Ok" THEN Ok(MissionStatus(r.value.telemetry.data3)) ELSE r

(***************************************************************************)
(* BotanDecoder                                                            *)
(***************************************************************************)

\* HashMap::new()
EmptyMap == [q \in {} |-> <<>>]

\* HashMap::get
MapGet(m, key) == IF key \in DOMAIN m THEN Some(m[key]) ELSE None

\* A faulty add_mapping that keeps the value a pattern already has
\* (sensitivity of C13).
add_mapping_KeepFirst(m, pattern, decoded) ==
    [q \in DOMAIN m \cup {pattern} |-> IF q \in DOMAIN m THEN m[q] ELSE decoded]

\* BotanDecoder::add_mapping: HashMap::insert, which replaces the value of
\* a key that is present.
add_mapping(m, pattern, decoded) ==
    [q \in DOMAIN m \cup {pattern} |-> IF q = pattern THEN decoded ELSE m[q]]

\* The table after the inserts of a sequence of <<pattern, value>> pairs.
RECURSIVE InsertAll(_, _)
InsertAll(m, kvs) ==
    IF kvs = <<>> THEN m
    ELSE InsertAll(add_mapping(m, kvs[1][1], kvs[1][2]), Tail(kvs))

\* BotanDecoder::new: the 26 letters and the 10 digits.
BotanDecoder_new ==
    InsertAll(EmptyMap,
    <<<<<<".", "-">>, <<"A">>>>,
      <<<<"-", ".", ".", ".">>, <<"B">>>>,
      <<<<"-", ".", "-", ".">>, <<"C">>>>,
      <<<<"-", ".", ".">>, <<"D">>>>,
      <<<<".">>, <<"E">>>>,
      <<<<".", ".", "-", ".">>, <<"F">>>>,
      <<<<"-", "-", ".">>, <<"G">>>>,
      <<<<".", ".", ".", ".">>, <<"H">>>>,
      <<<<".", ".">>, <<"I">>>>,
      <<<<".", "-", "-", "-">>, <<"J">>>>,
      <<<<"-", ".", "-">>, <<"K">>>>,
      <<<<".", "-", ".", ".">>, <<"L">>>>,
      <<<<"-", "-">>, <<"M">>>>,
      <<<<"-", ".">>, <<"N">>>>,
      <<<<"-", "-", "-">>, <<"O">>>>,
      <<<<".", "-", "-", ".">>, <<"P">>>>,
      <<<<"-", "-", ".", "-">>, <<"Q">>>>,
      <<<<".", "-", ".">>, <<"R">>>>,
      <<<<".", ".", ".">>, <<"S">>>>,
      <<<<"-">>, <<"T">>>>,
      <<<<".", ".", "-">>, <<"U">>>>,
      <<<<".", ".", ".", "-">>, <<"V">>>>,
      <<<<".", "-", "-">>, <<"W">>>>,
      <<<<"-", ".", ".", "-">>, <<"X">>>>,
      <<<<"-", ".", "-", "-">>, <<"Y">>>>,
      <<<<"-", "-", ".", ".">>, <<"Z">>>>,
      <<<<".", "-", "-", "-", "-">>, <<"1">>>>,
      <<<<".", ".", "-", "-", "-">>, <<"2">>>>,
      <<<<".", ".", ".", "-", "-">>, <<"3">>>>,
      <<<<".", ".", ".", ".", "-">>, <<"4">>>>,
      <<<<".", ".", ".", ".", ".">>, <<"5">>>>,
      <<<<"-", ".", ".", ".", ".">>, <<"6">>>>,
      <<<<"-", "-", ".", ".", ".">>, <<"7">>>>,
      <<<<"-", "-", "-", ".", ".">>, <<"8">>>>,
      <<<<"-", "-", "-", "-", ".">>, <<"9">>>>,
      <<<<"-", "-", "-", "-", "-">>, <<"0">>>>>>)

\* BotanDecoder::with_custom_mappings
with_custom_mappings(mappings) == mappings

\* str::split("  "): the pieces between the non-overlapping occurrences of
\* two spaces, found left to right; empty pieces are kept.
RECURSIVE SplitDouble(_, _)
SplitDouble(s, piece) ==
    IF s = <<>> THEN <<piece>>
    ELSE IF Len(s) >= 2 /\ s[1] = " " /\ s[2] = " "
    THEN <<piece>> \o SplitDouble(SubSeq(s, 3, Len(s)), <<>>)
    ELSE SplitDouble(Tail(s), Append(piece, s[1]))

\* str::split(' '): the pieces between the spaces; empty pieces are kept.
RECURSIVE SplitSpace(_, _)
SplitSpace(s, piece) ==
    IF s = <<>> THEN <<piece>>
    ELSE IF s[1] = " " THEN <<piece>> \o SplitSpace(Tail(s), <<>>)
    ELSE SplitSpace(Tail(s), Append(piece, s[1]))

\* .filter(|s| !s.is_empty())
RECURSIVE FilterNonEmpty(_)
FilterNonEmpty(ps) ==
    IF ps = <<>> THEN <<>>
    ELSE IF ps[1] = <<>> THEN FilterNonEmpty(Tail(ps))
    ELSE <<ps[1]>> \o FilterNonEmpty(Tail(ps))

\* The inner loop of decode over the patterns of one word: the text so far
\* with the value of each pattern pushed, or the first unknown pattern.
RECURSIVE DecodePatterns(_, _, _)
DecodePatterns(m, patterns, text) ==
    IF patterns = <<>> THEN Ok(text)
    ELSE IF MapGet(m, patterns[1]).kind = "None" THEN Err("Unknown pattern")
    ELSE DecodePatterns(m, Tail(patterns), text \o MapGet(m, patterns[1]).value)

\* The outer loop of decode over the words from index word_idx (0-based) on.
RECURSIVE DecodeWords(_, _, _, _)
DecodeWords(m, words, word_idx, text) ==
    IF word_idx >= Len(words) THEN Ok(text)
    ELSE LET sep == IF word_idx > 0 THEN text \o <<" ">> ELSE text
             r == DecodePatterns(m,
                      FilterNonEmpty(SplitSpace(words[word_idx + 1], <<>>)), sep)
         IN  IF r.kind = "Err" THEN r
             ELSE DecodeWords(m, words, word_idx + 1, r.value)

\* BotanDecoder::decode
decode(m, text) ==
    IF trim(text) = <<>> THEN Ok(<<>>)
    ELSE DecodeWords(m, SplitDouble(text, <<>>), 0, <<>>)

UnknownPattern == {"Unknown pattern"}

(***************************************************************************)
(* Input lines                                                             *)
(***************************************************************************)

\* The largest number of tokens of a generated line.
MaxTokens == 5

HexChars ==
    <<"0", "1", "2", "3", "4", "5", "6", "7", "8", "9",
      "A", "B", "C", "D", "E", "F">>

HexByte(v) == <<HexChars[(v \div 16) + 1], HexChars[(v % 16) + 1]>>

RECURSIVE Concat(_)
Concat(ss) == IF ss = <<>> THEN <<>> ELSE ss[1] \o Concat(Tail(ss))

EncodePayload(bs) == Concat([i \in 1..Len(bs) |-> HexByte(bs[i])])

\* The payload of the example beacon, A57EB76823210E08.
BasePayload == <<165, 126, 183, 104, 35, 33, 14, 8>>

\* Every payload that differs from the example in at most one byte.
SweepPayloads ==
    {EncodePayload([BasePayload EXCEPT ![k] = v]) : k \in 1..8, v \in 0..255}

BOTAN == <<"B", "O", "T", "A", "N">>
JS1YPT == <<"J", "S", "1", "Y", "P", "T">>

SatelliteTokens == {BOTAN, <<"b", "o", "t", "a", "n">>, <<"W", "R", "O", "N", "G">>}

CallSignTokens == {JS1YPT, <<"j", "s", "1", "y", "p", "t">>}

SignalTokens ==
    {<<"S", "I", "8", "6", "4", "0">>,
     <<"S", "I", "f", "e", "0", "A">>,
     <<"s", "i", "8", "6", "4", "0">>,
     <<"S", "X", "8", "6", "4", "0">>,
     <<"S", "I", "8", "6">>,
     <<"S", "I", "8", "6", "4", "0", "0">>,
     <<"S", "I", "G", "6", "4", "0">>,
     <<"S", "I", "8", "6", "4", "Z">>,
     <<"S", "I", "+", "5", "+", "5">>,
     <<"S", "I", "8", "6", "-", "0">>,
     <<"S", "I", "<C3>", "<A9>", "4", "0">>,
     <<"S", "I", "8", "<C3>", "<A9>", "0">>}

PayloadTokens ==
    {EncodePayload(BasePayload),
     <<"a", "5", "7", "e", "b", "7", "6", "8", "2", "3", "2", "1", "0", "e", "0", "8">>,
     <<"0", "0", "0", "0", "0", "0", "0", "0", "0", "0", "0", "0", "0", "0", "0", "0">>,
     <<"A", "5", "7", "E", "B", "7", "6", "8">>,
     <<"A", "5", "7", "E", "B", "7", "6", "8", "2", "3", "2", "1", "0", "E", "0", "8", "0">>,
     <<"G", "5", "7", "E", "B", "7", "6", "8", "2", "3", "2", "1", "0", "E", "0", "8">>,
     <<"+", "5", "7", "E", "B", "7", "6", "8", "2", "3", "2", "1", "0", "E", "0", "8">>,
     <<"A", "5", "7", "E", "B", "7", "6", "8", "2", "3", "2", "1", "0", "E", "-", "8">>,
     <<"A", "5", "7", "E", "B", "7", "6", "8", "2", "3", "2", "1", "0", "E", "8", "+">>,
     <<"<C3>", "<A9>", "7", "E", "B", "7", "6", "8", "2", "3", "2", "1", "0", "E", "0", "8">>,
     <<"A", "<C3>", "<A9>", "E", "B", "7", "6", "8", "2", "3", "2", "1", "0", "E", "0", "8">>,
     <<"A", "5", "7", "E", "B", "7", "6", "8", "2", "3", "2", "1", "0", "<C3>", "<A9>", "8">>}

\* The tokens a generated line may carry at position n (1-based).
TokenPool(n) ==
    CASE n = 1 -> SatelliteTokens
      [] n = 2 -> CallSignTokens
      [] n = 3 -> SignalTokens \cup PayloadTokens
      [] n = 4 -> PayloadTokens
      [] OTHER -> {<<"X">>}

RECURSIVE TokenSeqs(_)
TokenSeqs(n) ==
    IF n = 0 THEN {<<>>}
    ELSE {Append(s, t) : s \in TokenSeqs(n - 1), t \in TokenPool(n)}

RECURSIVE Join(_, _)
Join(toks, sep) ==
    IF toks = <<>> THEN <<>>
    ELSE IF Len(toks) = 1 THEN toks[1]
    ELSE toks[1] \o sep \o Join(Tail(toks), sep)

\* A line as the wire format writes it, and the same tokens with other
\* whitespace between and around them.
Plain(toks) == Join(toks, <<" ">>)
Padded(toks) == <<" ">> \o Join(toks, <<"\t", " ">>) \o <<"\r", "\n">>
\* Form feed, vertical tab and the non-ASCII whitespace U+3000 and U+00A0.
Exotic(toks) ==
    <<"<0B>">> \o Join(toks, <<"\f", "<E3>", "<80>", "<80>">>) \o <<"<C2>", "<A0>">>

Inputs ==
    {Plain(<<BOTAN, JS1YPT, pl>>) : pl \in SweepPayloads}
    \cup UNION {{Plain(toks), Padded(toks), Exotic(toks)} : toks \in UNION {TokenSeqs(n) : n \in 0..MaxTokens}}

(***************************************************************************)
(* The state machine: one call on one line                                 *)
(***************************************************************************)

Init ==
    /\ input \in Inputs
    /\ pc = "start"
    /\ parts = <<>>
    /\ data_str = <<>>
    /\ bytes = <<>>
    /\ result = None
    /\ report = None
    /\ decode_map = BotanDecoder_new
    /\ initial_map = BotanDecoder_new
    /\ calls = <<>>
    /\ dec_input = <<>>
    /\ dec_result = None

\* A direct call of botan_parser::parse_botan_beacon (as the tests make).
ParseBotanBeacon ==
    /\ pc = "start"
    /\ pc' = "parsed"
    /\ parts' = split_whitespace(trim(input))
    /\ data_str' = DataStrReached(parts')
    /\ bytes' = BytesReached(parts')
    /\ result' = parse_botan_beacon(input)
    /\ UNCHANGED <<input, report>>
    /\ UNCHANGED decoderVars

\* A call of decode_botan_beacon: the parse, then the rendering.
DecodeBotanBeacon ==
    /\ pc = "start"
    /\ pc' = "decoded"
    /\ parts' = split_whitespace(trim(input))
    /\ data_str' = DataStrReached(parts')
    /\ bytes' = BytesReached(parts')
    /\ result' = parse_botan_beacon(input)
    /\ report' = decode_botan_beacon(input)
    /\ UNCHANGED input
    /\ UNCHANGED decoderVars

Next == ParseBotanBeacon \/ DecodeBotanBeacon

Spec == Init /\ [][Next]_vars

Returned == pc # "start"

(***************************************************************************)
(* The state machine of a BotanDecoder: add_mapping and decode calls       *)
(***************************************************************************)

\* The largest number of add_mapping calls made on one decoder.
MaxCalls == 2

DotDash == <<".", "-">>
Custom1 == <<"C", "U", "S", "T", "O", "M", "1">>
LetterX == <<"X">>
Period == <<".", "-", ".", "-", ".", "-">>
Spaced == <<"S", " ", "O">>
TabOnly == <<"\t">>
FormFeedAfter == <<"X", "\f">>
TabInside == <<"S", "\t", "O">>

\* The patterns add_mapping is called with, and those decode is asked for.
AddPatterns == {DotDash, Custom1, LetterX, Spaced, FormFeedAfter, <<>>}
SinglePatterns == AddPatterns \cup {Period, TabOnly, TabInside}

AddValues == {<<"V", "A", "L", "U", "E", "1">>, <<"Z">>}

\* The table of test_custom_mappings.
CustomTable ==
    InsertAll(EmptyMap,
        <<<<LetterX, <<"S", "P", "E", "C", "I", "A", "L">>>>,
          <<<<"Y">>, <<"C", "O", "D", "E">>>>>>)

InitialTables == {BotanDecoder_new, EmptyMap, CustomTable}

DecodeInputs ==
    SinglePatterns
    \cup {DotDash \o <<" ">> \o LetterX,
          DotDash \o <<" ", " ">> \o LetterX,
          <<" ", " ", " ">>,
          <<"\f">>,
          <<"<E3>", "<80>", "<80>">>,
          <<".", ".", ".", ".", " ", ".", ".", " ", " ", ".", "-", "-">>}

InitDecoder ==
    /\ initial_map \in InitialTables
    /\ decode_map = with_custom_mappings(initial_map)
    /\ calls = <<>>
    /\ dec_input = <<>>
    /\ dec_result = None
    /\ input = <<>>
    /\ pc = "start"
    /\ parts = <<>>
    /\ data_str = <<>>
    /\ bytes = <<>>
    /\ result = None
    /\ report = None

\* decoder.add_mapping(pattern, decoded); no decode result is outstanding
\* for the new table.
AddMapping ==
    \E pattern \in AddPatterns, decoded \in AddValues :
        /\ Len(calls) < MaxCalls
        /\ decode_map' = add_mapping(decode_map, pattern, decoded)
        /\ calls' = Append(calls, <<pattern, decoded>>)
        /\ dec_input' = <<>>
        /\ dec_result' = None
        /\ UNCHANGED initial_map
        /\ UNCHANGED parserVars

\* decoder.decode(text)
Decode ==
    \E text \in DecodeInputs :
        /\ dec_input' = text
        /\ dec_result' = decode(decode_map, text)
        /\ UNCHANGED <<decode_map, initial_map, calls>>
        /\ UNCHANGED parserVars

NextDecoder == AddMapping \/ Decode

SpecDecoder == InitDecoder /\ [][NextDecoder]_vars

(***************************************************************************)
(* Properties                                                              *)
(***************************************************************************)

HeaderOk == Len(parts) >= 3 /\ parts[1] = BOTAN /\ parts[2] = JS1YPT

\* The lead bytes of the multi-byte characters of the inputs.
LeadBytes == {"<C2>", "<C3>", "<E1>", "<E2>", "<E3>"}

IsAscii(s) == \A i \in 1..Len(s) : s[i] \notin LeadBytes \cup ContinuationBytes

\* The value of the 2-digit hexadecimal group of t that starts at position i.
GroupValue(t, i) == 16 * HexVal(t[i]) + HexVal(t[i + 1])

\* Bit n (0 = least significant) of the byte b.
Bit(b, n) == (b \div Pow2(n)) % 2

BoolBit(f) == IF f THEN 1 ELSE 0

BatTempError == {"Invalid battery temperature calculation"}
BoardTempError == {"Invalid board temperature calculation"}

\* The line was decoded down to its 8 payload bytes.
ReachedTelemetry == Returned /\ Len(bytes) = 8

\* C1: a line with fewer than 3 tokens or with 5 or more tokens fails with
\* the malformed-frame error.  (Lines whose header is wrong are left aside
\* here: which of the two errors they report is the matter of C10.)
C1_TokenCountGate ==
    (Returned /\ Len(parts) \notin {3, 4} /\ (Len(parts) < 3 \/ HeaderOk))
        => IsErr(result, MalformedFrame)

\* C2: a 16-character payload token with a character that is not a
\* hexadecimal digit fails with the bad-hex-digit error: the call returns no
\* decoded record.
C2_NonHexRejected ==
    (/\ Returned
     /\ Len(data_str) = 16
     /\ IsAscii(data_str)
     /\ \E i \in 1..16 : data_str[i] \notin HexDigits)
        => IsErr(result, BadHexDigit)

WellFormedSignal(t) ==
    /\ Len(t) = 6
    /\ t[1] = "S"
    /\ t[2] = "I"
    /\ \A i \in 3..6 : t[i] \in HexDigits

\* C3: on a 4-token line with a valid header, token[2] is accepted as the
\* signal-quality field only if it is "SI" followed by 4 hexadecimal digits;
\* any other token fails with the bad-signal-quality error, and an accepted
\* one gives rssi and snr as the two byte values.
C3_SignalField ==
    (Returned /\ Len(parts) = 4 /\ HeaderOk /\ IsAscii(parts[3]))
        => /\ ~WellFormedSignal(parts[3]) => IsErr(result, BadSignalQuality)
           /\ (WellFormedSignal(parts[3]) /\ result.kind = "Ok")
                 => result.value.rssi =
                        Some([rssi_dbm |-> GroupValue(parts[3], 3),
                              snr_db |-> GroupValue(parts[3], 5)])

\* C4: StatusGroup2 accounts for all 8 bits of byte 6: the byte is
\* reserve_cmd_counter*16 + cmd_uplink_counter*2 + kill_sw, and no other
\* byte decodes to the same StatusGroup2.
C4_Data2AllBits ==
    (Returned /\ result.kind = "Ok")
        => LET d == result.value.telemetry.data2
           IN  /\ bytes[7] = d.reserve_cmd_counter * 16
                               + d.cmd_uplink_counter * 2 + BoolBit(d.kill_sw)
               /\ \A b \in 0..255 : b # bytes[7] => Data2Flags(b) # d

\* C5 as stated: the battery-temperature conversion fails exactly when
\* byte*1289 >= 330000, and no payload is rejected because of its byte 2.
C5_BatTempNeverFails ==
    ReachedTelemetry
        => /\ IsErr(result, BatTempError) <=> (bytes[3] * 1289 >= 330000)
           /\ ~IsErr(result, BatTempError)

\* C5 as amended: for a byte 2 in 0..255 the battery-temperature conversion
\* fails exactly when the byte is 0; byte*1289 >= 330000 holds for no byte,
\* so a payload is rejected because of its byte 2 exactly when that byte is 0.
C5_BatTempFailsAtZero ==
    ReachedTelemetry
        => /\ IsErr(result, BatTempError) <=> (bytes[3] = 0)
           /\ bytes[3] * 1289 < 330000

C5_Witness ==
    ReachedTelemetry /\ bytes[3] = 0 /\ IsErr(result, BatTempError)

\* ratio <= 0 for ratio = x / (3.3 - x) with x = byte2 * 0.01289 >= 0:
\* x is 0, or x exceeds 3.3.
RatioNonPositive(byte2) == byte2 * 1289 = 0 \/ byte2 * 1289 > 330000

\* C6: parse_telemetry_bytes fails with the battery-temperature error if
\* and only if ratio <= 0; when ratio > 0 decoding goes on to byte 3, so the
\* outcome is a record or the board-temperature error.
C6_BatTempIffRatio ==
    ReachedTelemetry
        => /\ IsErr(result, BatTempError) <=> RatioNonPositive(bytes[3])
           /\ ~RatioNonPositive(bytes[3])
                 => (result.kind = "Ok" \/ IsErr(result, BoardTempError))

C6_Witness ==
    /\ ReachedTelemetry
    /\ bytes[3] = 1
    /\ result.kind = "Ok"
    /\ result.value.telemetry.bat_t = [ln_num |-> 1289, ln_den |-> 328711]

\* C7: for every byte 3 in 0..255 the discriminant 36.44506 - byte*0.06875
\* is not negative, and the board-temperature error is never reported.
C7_BoardTempNeverFails ==
    ReachedTelemetry
        => /\ 3644506 - bytes[4] * 6875 >= 0
           /\ ~IsErr(result, BoardTempError)
           /\ result.kind = "Ok"
                 => result.value.telemetry.bpb_t.sqrt_e5
                        = 3644506 - bytes[4] * 6875

C7_Witness ==
    ReachedTelemetry /\ bytes[4] = 255 /\ result.kind = "Ok"

\* The 8 flags of StatusGroup1, most significant bit first.
Data1Sequence(d) ==
    <<d.power_5v0, d.power_depant, d.power_com, d.sap_x_pos,
      d.sap_y_pos, d.sap_y_neg, d.sap_z_pos, d.sap_z_neg>>

RECURSIVE SumSeq(_)
SumSeq(q) == IF q = <<>> THEN 0 ELSE q[1] + SumSeq(Tail(q))

\* C8: the 8 flags of StatusGroup1 are bits 7 down to 0 of byte 5 in the
\* order of the record: as many flags are true as bits are set, and the
\* flags weighted by 128, 64, ..., 1 add up to the byte.
C8_Data1RoundTrip ==
    (Returned /\ result.kind = "Ok")
        => LET f == Data1Sequence(result.value.telemetry.data1)
               w == <<128, 64, 32, 16, 8, 4, 2, 1>>
           IN  /\ \A k \in 1..8 : f[k] <=> (Bit(bytes[6], 8 - k) = 1)
               /\ SumSeq([k \in 1..8 |-> BoolBit(f[k])])
                    = SumSeq([k \in 1..8 |-> Bit(bytes[6], 8 - k)])
               /\ SumSeq([k \in 1..8 |-> w[k] * BoolBit(f[k])]) = bytes[6]

C8_Witness ==
    /\ Returned
    /\ result.kind = "Ok"
    /\ bytes[6] = 172
    /\ Data1Sequence(result.value.telemetry.data1)
         = <<TRUE, FALSE, TRUE, FALSE, TRUE, TRUE, FALSE, FALSE>>

\* C9: StatusGroup3 is kill_counter = bits 7-6, mission_pic_on = bit 5,
\* mis_error_flag = bit 4, mis_end_flag = bit 3, aprs_flag = bit 2 and
\* current_mis = bits 1-0; the only failures of an 8-byte payload are those
\* of the two temperature channels, whatever byte 7 is; current_mis renders
\* as None, Earth, Sun for 0, 1, 2 and as Unknown for 3.
C9_Data3Layout ==
    /\ (ReachedTelemetry /\ result.kind = "Err") => result.msg \in OutOfDomain
    /\ (Returned /\ result.kind = "Ok")
          => LET d == result.value.telemetry.data3
                 b == bytes[8]
             IN  /\ d.kill_counter = 2 * Bit(b, 7) + Bit(b, 6)
                 /\ d.mission_pic_on <=> (Bit(b, 5) = 1)
                 /\ d.mis_error_flag <=> (Bit(b, 4) = 1)
                 /\ d.mis_end_flag <=> (Bit(b, 3) = 1)
                 /\ d.aprs_flag <=> (Bit(b, 2) = 1)
                 /\ d.current_mis = 2 * Bit(b, 1) + Bit(b, 0)
                 /\ d.current_mis \in 0..3
    /\ (pc = "decoded" /\ result.kind = "Ok")
          => /\ report.kind = "Ok"
             /\ report.value.current_mission =
                    <<"None", "Earth", "Sun", "Unknown">>[(bytes[8] % 4) + 1]

C9_Witness ==
    /\ pc = "decoded"
    /\ Len(bytes) = 8
    /\ bytes[8] = 255
    /\ result.kind = "Ok"
    /\ result.value.telemetry.data3.current_mis = 3
    /\ report.value.current_mission = "Unknown"

\* C10: a line with at least 3 tokens whose token[0] is not "BOTAN" or whose
\* token[1] is not "JS1YPT" (compared exactly) fails with the bad-header
\* error, before the signal-quality field or the payload is looked at.
C10_HeaderFirst ==
    (Returned /\ Len(parts) >= 3 /\ (parts[1] # BOTAN \/ parts[2] # JS1YPT))
        => (IsErr(result, BadHeader) /\ data_str = <<>> /\ bytes = <<>>)

C10_Witness ==
    /\ Returned
    /\ Len(parts) = 3
    /\ parts[1] = BOTAN
    /\ parts[2] = <<"j", "s", "1", "y", "p", "t">>
    /\ Len(parts[3]) = 8
    /\ IsErr(result, BadHeader)

\* The number of characters of s: every byte that is not a continuation
\* byte starts one.
CharLen(s) == Cardinality({i \in 1..Len(s) : s[i] \notin ContinuationBytes})

\* The line got as far as its payload token: the header is valid and, on a
\* 4-token line, the signal-quality field is well formed.
PayloadToken ==
    IF Len(parts) = 4 THEN parts[4] ELSE parts[3]

PayloadStage ==
    /\ Returned
    /\ HeaderOk
    /\ Len(parts) = 4 => WellFormedSignal(parts[3])

\* C11: with a valid header (and signal-quality field), a payload token
\* whose length is not exactly 16 characters fails with the
\* bad-payload-length error and no hex digit is decoded; every successful
\* parse decoded exactly 8 bytes, the values of the 8 groups left to right.
C11_PayloadLength ==
    PayloadStage
        => /\ CharLen(PayloadToken) # 16
                 => (IsErr(result, BadPayloadLength) /\ bytes = <<>>)
           /\ result.kind = "Ok" => Len(bytes) = 8
           /\ (result.kind = "Ok"
                 /\ \A i \in 1..Len(PayloadToken) : PayloadToken[i] \in HexDigits)
                 => \A k \in 1..8 : bytes[k] = GroupValue(PayloadToken, 2 * k - 1)

\* The bytes other than k of a payload, replaced one at a time by these.
OtherValues == {1, 128, 255}

\* C12: each linear analog channel is a function of one byte: bat_v*10^6 =
\* byte0*25781, bat_i*10^3 = 6330400 - byte1*50045, raw_i*10^2 =
\* byte4*5184 - 195090, and a payload that differs in any other byte gives
\* the same value of the channel.
C12_LinearChannels ==
    (Returned /\ result.kind = "Ok")
        => LET t == result.value.telemetry
               Same(k, v) == parse_telemetry_bytes([bytes EXCEPT ![k] = v])
           IN  /\ t.bat_v_e6 = bytes[1] * 25781
               /\ t.bat_i_e3 = 6330400 - bytes[2] * 50045
               /\ t.raw_i_e2 = bytes[5] * 5184 - 195090
               /\ \A k \in 1..8 : \A v \in OtherValues :
                     Same(k, v).kind = "Ok"
                        => /\ k # 1 => Same(k, v).value.bat_v_e6 = t.bat_v_e6
                           /\ k # 2 => Same(k, v).value.bat_i_e3 = t.bat_i_e3
                           /\ k # 5 => Same(k, v).value.raw_i_e2 = t.raw_i_e2

C12_Witness ==
    /\ Returned
    /\ result.kind = "Ok"
    /\ bytes = <<165, 126, 183, 104, 35, 33, 14, 8>>
    /\ result.value.telemetry.bat_v_e6 = 4253865
    /\ result.value.telemetry.bat_i_e3 = 24730
    /\ result.value.telemetry.raw_i_e2 = -13650

\* C14: parse_botan_beacon is total: every call returns a record or an
\* error value; none aborts while slicing a token.
C14_NeverPanics ==
    Returned => result.kind \in {"Ok", "Err"}

\* The value most recently mapped to pattern q: that of the last add_mapping
\* call for q, or else the one of the table the decoder was constructed with.
RECURSIVE Latest(_, _, _)
Latest(cs, q, table) ==
    IF cs = <<>> THEN (IF q \in DOMAIN table THEN Some(table[q]) ELSE None)
    ELSE IF cs[Len(cs)][1] = q THEN Some(cs[Len(cs)][2])
    ELSE Latest(SubSeq(cs, 1, Len(cs) - 1), q, table)

\* What C13 says decode returns for the single pattern q.
LatestOrUnknown(q) ==
    IF Latest(calls, q, initial_map).kind = "Some"
    THEN Ok(Latest(calls, q, initial_map).value)
    ELSE Err("Unknown pattern")

\* A pattern that decode reads back as one pattern: a non-blank input with
\* no space, which decode looks up whole (the input is split untrimmed).
IsSingleToken(t) == trim(t) # <<>> /\ \A i \in 1..Len(t) : t[i] # " "

DecodedSingle == dec_result.kind # "None" /\ dec_input \in SinglePatterns

\* C13 as stated: after any add_mapping calls, decode of a single pattern p
\* returns the value most recently mapped to p, and fails with the
\* unknown-pattern error exactly when p is not a key of the table.  (An
\* input that is empty or blank holds no pattern and is left aside.)
C13_AnyPattern ==
    (DecodedSingle /\ trim(dec_input) # <<>>)
        => /\ dec_result = LatestOrUnknown(dec_input)
           /\ IsErr(dec_result, UnknownPattern) <=> (dec_input \notin DOMAIN decode_map)

\* C13 as amended: the same for a pattern p that holds no space character
\* (whitespace other than a space, as in "X\f" or "S\tO", is part of the
\* pattern; an empty or blank input is left aside as above); and after any
\* add_mapping calls every pattern of the table has the value most recently
\* mapped to it (a later call for a pattern overwrites, and changes no other
\* pattern).
C13_LatestMapping ==
    /\ \A q \in SinglePatterns :
          MapGet(decode_map, q) = Latest(calls, q, initial_map)
    /\ (DecodedSingle /\ IsSingleToken(dec_input))
          => /\ dec_result = LatestOrUnknown(dec_input)
             /\ IsErr(dec_result, UnknownPattern)
                   <=> (dec_input \notin DOMAIN decode_map)

C13_Witness ==
    /\ initial_map = BotanDecoder_new
    /\ Len(calls) = 2
    /\ calls[1] = <<DotDash, <<"Z">>>>
    /\ calls[2] = <<DotDash, <<"V", "A", "L", "U", "E", "1">>>>
    /\ dec_input = DotDash
    /\ dec_result = Ok(<<"V", "A", "L", "U", "E", "1">>)

====
